---- MODULE Spec2Model ----
(***************************************************************************)
(* A model of dropshell (src/unixsh.c): the tokenizer parse_input, the     *)
(* history store, the built-in dispatch, the two-stage pipeline executor   *)
(* execute_pipe, the single-command launcher and the reap sweep of main's  *)
(* loop, together with the child processes the shell creates.              *)
(*                                                                         *)
(* Text is modelled as a sequence of one-character strings, a token as a   *)
(* non-empty sequence of characters, and the NULL pointer as the empty     *)
(* sequence (strtok never returns an empty token).  The args array is the  *)
(* sequence of its entries before the first NULL.                          *)
(*                                                                         *)
(* The module also models the two other programs of the repository, each   *)
(* under a specification of its own: the forked estimator of               *)
(* src/monte_carlo.c (SpecMC) and the threaded validator of src/sudoku.c   *)
(* (SpecSudoku).                                                           *)
(***************************************************************************)
EXTENDS Integers, Sequences, FiniteSets, TLC

\* ------------------------------------------------------------------ bounds
\* Longest line the tokenizer specification SpecParse enumerates.
MaxLen == 4

\* --------------------------------------------------------------- constants
MAX_LINE == 80
MAX_ARGS == 40

\* The NULL pointer (no token is ever empty).
NULL == << >>

\* strtok's delimiter set " \t\n".
Delims == {" ", "\t", "\n"}

\* The token "&".
Amp == <<"&">>

\* ------------------------------------------------------------ parse_input
RECURSIVE SkipDelims(_, _)
\* strtok, first phase: the first position at or after pos that holds no
\* delimiter (Len(s)+1 or more when there is none).
SkipDelims(s, pos) ==
    IF pos > Len(s) THEN pos
    ELSE IF s[pos] \in Delims THEN SkipDelims(s, pos + 1)
    ELSE pos

RECURSIVE TokenEnd(_, _)
\* strtok, second phase: the first position at or after pos that holds a
\* delimiter, or Len(s)+1 at the end of the string.
TokenEnd(s, pos) ==
    IF pos > Len(s) THEN pos
    ELSE IF s[pos] \in Delims THEN pos
    ELSE TokenEnd(s, pos + 1)

\* One call of strtok scanning s from pos: the token found (NULL when only
\* delimiters are left) and the position the next call resumes from.
Strtok(s, pos) ==
    LET b == SkipDelims(s, pos)
    IN  IF b > Len(s)
        THEN [tok |-> NULL, next |-> b]
        ELSE LET e == TokenEnd(s, b)
             IN  [tok |-> SubSeq(s, b, e - 1), next |-> e + 1]

RECURSIVE TokenLoop(_, _, _)
\* The while loop of parse_input: args[i++] = token until strtok gives NULL.
TokenLoop(s, pos, acc) ==
    LET r == Strtok(s, pos)
    IN  IF r.tok = NULL THEN acc
        ELSE TokenLoop(s, r.next, Append(acc, r.tok))

\* parse_input with the index test off by one (i > 1 for i > 0).
ParseInputOffByOne(line) ==
    LET toks == TokenLoop(line, 1, << >>)
        i    == Len(toks)
    IN  IF i > 1 /\ toks[i] = Amp
        THEN [args |-> SubSeq(toks, 1, i - 1), background |-> 1, n |-> i]
        ELSE [args |-> toks, background |-> 0, n |-> i]

\* parse_input: the argument sequence left in args, the returned background
\* flag, and n, the value of i after the loop (args[n] receives the NULL).
ParseInput(line) ==
    LET toks == TokenLoop(line, 1, << >>)
        i    == Len(toks)
    IN  IF i > 0 /\ toks[i] = Amp
        THEN [args |-> SubSeq(toks, 1, i - 1), background |-> 1, n |-> i]
        ELSE [args |-> toks, background |-> 0, n |-> i]

\* ------------------------------------------------------------------ text
Sp == <<" ">>
Pipe == <<"|">>
BangBang == <<"!", "!">>
ProgA == <<"a">>
ProgB == <<"b">>
Exit == <<"e", "x", "i", "t">>
Cd == <<"c", "d">>
Pwd == <<"p", "w", "d">>
Help == <<"h", "e", "l", "p">>
History == <<"h", "i", "s", "t", "o", "r", "y">>

\* The names main compares args[0] with before it looks for a pipe.
Builtins == {Exit, Cd, Pwd, Help, History}

\* The working directory the shell starts in, and the value of HOME when set.
RootDir == <<"/">>
HomeDir == <<"~">>

\* The lines the reader delivers in the shell specification (fgets, with the
\* newline already removed by line 191).
InputLines ==
    { << >>,
      Sp,
      BangBang,
      ProgA,
      ProgA \o Sp \o Amp,
      ProgA \o Sp \o Pipe \o Sp \o ProgB,
      ProgA \o Sp \o Pipe \o Sp \o ProgB \o Sp \o Amp,
      Pipe \o Sp \o ProgB,
      ProgA \o Sp \o Pipe \o Sp \o Cd,
      History \o Sp \o Pipe \o Sp \o ProgA \o Sp \o Amp,
      Exit }

\* What the system calls of one iteration meet: nothing in the way, or a
\* failing fork, pipe or chdir (an iteration makes at most one call of each
\* before the shell is next seen).
Envs == {"ok", "forkfail", "pipefail", "chdirfail"}

\* ----------------------------------------------------------------- state
VARIABLES
    pc,                 \* where the shell process is in main / execute_pipe
    should_run,         \* main's should_run
    history,            \* the global history buffer
    history_available,  \* the global history_available
    typed,              \* the line fgets delivered, newline removed (line 191)
    input,              \* main's input buffer when it is parsed (line 212)
    args,               \* main's args array, up to its first NULL
    background,         \* main's background
    out,                \* what the shell printed in the latest iteration
    launch,             \* how the latest iteration ended
    procs,              \* the shell's children, by process slot
    fds,                \* the pipe descriptors open in the shell process
    pid,                \* main's pid (0: no fork in this iteration)
    p1, p2,             \* execute_pipe's p1 and p2 (0: not created)
    pipefd,             \* the channel execute_pipe created (0: none)
    args2,              \* execute_pipe's args2
    cwd,                \* the shell's working directory
    sweepStart,         \* during a sweep: the zombies at its first call
    ppc, pinput, pres,  \* the tokenizer specification's state
    stdin,              \* the characters of standard input not yet read
    chunk,              \* the latest fgets call: its number n among the
                        \* calls on its physical line, and whether it left
                        \* that line open (read no newline)
    mc,                 \* monte_carlo: main's position and locals
    workers,            \* monte_carlo: the forked child processes
    results,            \* monte_carlo: the shared result slots
    sudoku,             \* sudoku: the grid
    valid,              \* sudoku: the result array valid[11]
    threads,            \* sudoku: the worker threads
    sm                  \* sudoku: main's position and locals

shvars == <<pc, should_run, history, history_available, typed, input, args,
            background, out, launch, procs, fds, pid, p1, p2, pipefd, args2,
            cwd, sweepStart>>

\* The state of the other programs and of the reader's stream, which the
\* shell's own steps never touch.
auxvars == <<stdin, chunk, mc, workers, results, sudoku, valid, threads, sm>>

pvars == <<ppc, pinput, pres, auxvars>>

vars == <<shvars, pvars>>

\* --------------------------------------------------------------- bounds
\* The process limit: fork fails when this many children exist.
MaxChildren == 2
\* The descriptor limit, in channels: pipe fails when this many are open.
MaxChans == 1

Pids == 1..MaxChildren
Chans == 1..MaxChans

\* A printed line: its kind, the text it carries and the number it carries.
Msg(m, s, n) == [m |-> m, s |-> s, n |-> n]

\* A descriptor of channel c: its end ("r", "w") and whether it sits under
\* the number pipe() gave it ("pipefd") or under standard input/output.
Desc(c, e, a) == [ch |-> c, end |-> e, at |-> a]

PipeFds(c) == {Desc(c, "r", "pipefd"), Desc(c, "w", "pipefd")}

\* A free process slot.  A child has: st, "forked" while it runs the shell's
\* code between fork and execvp, "running" once its program runs, "zombie"
\* once it has ended unwaited ("inloop" would be a child back in main's
\* loop); prog, the name it hands to execvp; role; ex, how it ended; said,
\* the name in the message it printed; status; ch, its copy of pipefd (gone
\* with the shell's image once the program runs or the child ends); fds.
NoProc == [st |-> "none", prog |-> NULL, role |-> "none", ex |-> "none",
           said |-> NULL, status |-> 0, ch |-> 0, fds |-> {}]

\* The child fork() leaves running main's code: a copy of the shell with
\* the program it is about to execvp and the shell's descriptors.  Of the
\* inherited descriptors the child keeps on record those of its own channel
\* c: the others stay open in it untouched until it ends, and nothing the
\* child or the shell does reads them.
NewChild(role, a, c, inherited) ==
    [st |-> "forked", prog |-> IF Len(a) > 0 THEN a[1] ELSE NULL,
     role |-> role, ex |-> "none", said |-> NULL, status |-> 0, ch |-> c,
     fds |-> {d \in inherited : d.ch = c}]

FreePids == {p \in Pids : procs[p].st = "none"}
Zombies == {p \in Pids : procs[p].st = "zombie"}
Lowest(S) == CHOOSE x \in S : \A y \in S : x <= y

\* The channels no process holds a descriptor of.
FreeChans ==
    {c \in Chans :
        /\ \A d \in fds : d.ch # c
        /\ \A p \in Pids : \A d \in procs[p].fds : d.ch # c}

\* --------------------------------------------------------- history store
\* Lines 196-207 with the store of line 205 done for "!!" as well.
HistoryStepAlwaysStore(l, hist, avail) ==
    IF l = BangBang /\ avail = 0
    THEN [proceed |-> FALSE, history |-> hist, avail |-> avail,
          input |-> l, out |-> <<Msg("no_history", NULL, 0)>>]
    ELSE [proceed |-> TRUE, history |-> l, avail |-> 1,
          input |-> IF l = BangBang THEN hist ELSE l,
          out |-> IF l = BangBang THEN <<Msg("echo", hist, 0)>> ELSE << >>]

\* Lines 196-207 without the history_available test.
HistoryStepNoCheck(l, hist, avail) ==
    IF l = BangBang
    THEN [proceed |-> TRUE, history |-> hist, avail |-> avail,
          input |-> hist, out |-> <<Msg("echo", hist, 0)>>]
    ELSE [proceed |-> TRUE, history |-> l, avail |-> 1,
          input |-> l, out |-> << >>]

\* Lines 196-207 with the store of lines 205-206 skipped for a line that
\* holds no token (the store done after the args[0] test of line 215).
HistoryStepSkipBlank(l, hist, avail) ==
    IF l = BangBang
    THEN IF avail = 0
         THEN [proceed |-> FALSE, history |-> hist, avail |-> avail,
               input |-> l, out |-> <<Msg("no_history", NULL, 0)>>]
         ELSE [proceed |-> TRUE, history |-> hist, avail |-> avail,
               input |-> hist, out |-> <<Msg("echo", hist, 0)>>]
    ELSE IF \A i \in 1..Len(l) : l[i] \in Delims
    THEN [proceed |-> TRUE, history |-> hist, avail |-> avail,
          input |-> l, out |-> << >>]
    ELSE [proceed |-> TRUE, history |-> l, avail |-> 1,
          input |-> l, out |-> << >>]

\* Lines 196-207: "!!" recalls the stored line (or reports that there is
\* none and abandons the iteration); any other line is stored.
HistoryStep(l, hist, avail) ==
    IF l = BangBang
    THEN IF avail = 0
         THEN [proceed |-> FALSE, history |-> hist, avail |-> avail,
               input |-> l, out |-> <<Msg("no_history", NULL, 0)>>]
         ELSE [proceed |-> TRUE, history |-> hist, avail |-> avail,
               input |-> hist, out |-> <<Msg("echo", hist, 0)>>]
    ELSE [proceed |-> TRUE, history |-> l, avail |-> 1,
          input |-> l, out |-> << >>]

\* ------------------------------------------------------------- dispatch
\* What an iteration leaves behind when it neither forks nor changes the
\* shell beyond printing o.
Quiet(a, o, how) ==
    [pc |-> "top", should_run |-> should_run, args |-> a, out |-> o,
     launch |-> how, procs |-> procs, fds |-> fds, pid |-> 0, p1 |-> 0,
     p2 |-> 0, pipefd |-> 0, args2 |-> << >>, cwd |-> cwd]

\* builtin_cd: the directory after the call and what it printed.  The bare
\* cd hands getenv("HOME") to chdir and ignores the result: chdir fails when
\* HOME is unset or names no directory.
BuiltinCd(a, chdirok) ==
    IF Len(a) < 2
    THEN [cwd |-> IF chdirok THEN HomeDir ELSE cwd, out |-> << >>]
    ELSE IF chdirok
         THEN [cwd |-> a[2], out |-> << >>]
         ELSE [cwd |-> cwd, out |-> <<Msg("cd_failed", NULL, 0)>>]

\* builtin_history, reading the globals as the iteration has set them.
BuiltinHistory(hist, avail) ==
    IF avail # 0
    THEN <<Msg("last_command", hist, 0)>>
    ELSE <<Msg("no_commands", NULL, 0)>>

\* Lines 245-251: the index of the first "|" token, -1 when there is none.
PipeIdx(a) ==
    IF \E i \in 1..Len(a) : a[i] = Pipe
    THEN Lowest({i \in 1..Len(a) : a[i] = Pipe}) - 1
    ELSE -1

\* Lines 262-281 with the parent's wait of line 279 left out.
LaunchSingleNoWait(a, bg, o, forkok) ==
    IF ~forkok \/ FreePids = {}
    THEN Quiet(a, Append(o, Msg("fork_failed", NULL, 0)), "forkfail")
    ELSE LET new == Lowest(FreePids)
             q   == [Quiet(a, o, "fg") EXCEPT
                        !.procs = [procs EXCEPT
                                      ![new] = NewChild("single", a, 0, fds)],
                        !.pid = new]
         IN  IF bg # 0
             THEN [q EXCEPT !.out = Append(o, Msg("bg_pid", NULL, new)),
                            !.launch = "bg"]
             ELSE q

\* Lines 262-281 with the failed fork ending the shell (an exit after the
\* perror of line 266).
LaunchSingleForkFailExits(a, bg, o, forkok) ==
    IF ~forkok \/ FreePids = {}
    THEN [Quiet(a, Append(o, Msg("fork_failed", NULL, 0)), "forkfail")
             EXCEPT !.pc = "done"]
    ELSE LET new == Lowest(FreePids)
             q   == [Quiet(a, o, "fg") EXCEPT
                        !.procs = [procs EXCEPT
                                      ![new] = NewChild("single", a, 0, fds)],
                        !.pid = new]
         IN  IF bg # 0
             THEN [q EXCEPT !.out = Append(o, Msg("bg_pid", NULL, new)),
                            !.launch = "bg"]
             ELSE [q EXCEPT !.pc = "fgwait"]

\* Lines 262-281: fork one child for the command; the parent prints the
\* background notice or goes on to wait for the child.
LaunchSingle(a, bg, o, forkok) ==
    IF ~forkok \/ FreePids = {}
    THEN Quiet(a, Append(o, Msg("fork_failed", NULL, 0)), "forkfail")
    ELSE LET new == Lowest(FreePids)
             q   == [Quiet(a, o, "fg") EXCEPT
                        !.procs = [procs EXCEPT
                                      ![new] = NewChild("single", a, 0, fds)],
                        !.pid = new]
         IN  IF bg # 0
             THEN [q EXCEPT !.out = Append(o, Msg("bg_pid", NULL, new)),
                            !.launch = "bg"]
             ELSE [q EXCEPT !.pc = "fgwait"]

\* execute_pipe, lines 113-143 of the shell process: split args at the
\* separator, create the channel and fork the left child.
ExecutePipe(a, idx, o, forkok, pipeok) ==
    LET left  == SubSeq(a, 1, idx)
        right == SubSeq(a, idx + 2, Len(a))
        q     == [Quiet(left, o, "pipe") EXCEPT !.args2 = right]
    IN  IF ~pipeok \/ FreeChans = {}
        THEN [q EXCEPT !.out = Append(o, Msg("pipe_failed", NULL, 0))]
        ELSE LET c    == Lowest(FreeChans)
                 open == fds \cup PipeFds(c)
             IN  IF ~forkok \/ FreePids = {}
                 THEN [q EXCEPT !.out = Append(o, Msg("fork_failed", NULL, 0)),
                                !.fds = open, !.pipefd = c]
                 ELSE LET new == Lowest(FreePids)
                      IN  [q EXCEPT
                              !.pc = "pipe_fork2",
                              !.fds = open,
                              !.pipefd = c,
                              !.p1 = new,
                              !.procs = [procs EXCEPT
                                  ![new] = NewChild("left", left, c, open)]]

\* Lines 215-281 without the background test of line 254.
DispatchPipeInBackground(a, bg, o, hist, avail, forkok, pipeok, chdirok) ==
    IF Len(a) = 0 THEN Quiet(a, o, "notokens")
    ELSE IF a[1] = Exit
    THEN [Quiet(a, o, "builtin") EXCEPT !.should_run = 0, !.pc = "done"]
    ELSE IF a[1] = Cd
    THEN LET r == BuiltinCd(a, chdirok)
         IN  [Quiet(a, o \o r.out, "builtin") EXCEPT !.cwd = r.cwd]
    ELSE IF a[1] = Pwd
    THEN Quiet(a, Append(o, Msg("pwd", cwd, 0)), "builtin")
    ELSE IF a[1] = Help
    THEN Quiet(a, Append(o, Msg("help", NULL, 0)), "builtin")
    ELSE IF a[1] = History
    THEN Quiet(a, o \o BuiltinHistory(hist, avail), "builtin")
    ELSE IF PipeIdx(a) # -1
    THEN ExecutePipe(a, PipeIdx(a), o, forkok, pipeok)
    ELSE LaunchSingle(a, bg, o, forkok)

\* Lines 215-281: what the iteration does with the parsed line a (background
\* flag bg) after it has printed o, the globals being hist and avail.
Dispatch(a, bg, o, hist, avail, forkok, pipeok, chdirok) ==
    IF Len(a) = 0 THEN Quiet(a, o, "notokens")
    ELSE IF a[1] = Exit
    THEN [Quiet(a, o, "builtin") EXCEPT !.should_run = 0, !.pc = "done"]
    ELSE IF a[1] = Cd
    THEN LET r == BuiltinCd(a, chdirok)
         IN  [Quiet(a, o \o r.out, "builtin") EXCEPT !.cwd = r.cwd]
    ELSE IF a[1] = Pwd
    THEN Quiet(a, Append(o, Msg("pwd", cwd, 0)), "builtin")
    ELSE IF a[1] = Help
    THEN Quiet(a, Append(o, Msg("help", NULL, 0)), "builtin")
    ELSE IF a[1] = History
    THEN Quiet(a, o \o BuiltinHistory(hist, avail), "builtin")
    ELSE IF PipeIdx(a) # -1
    THEN IF bg # 0
         THEN Quiet(a, Append(o, Msg("pipe_bg_error", NULL, 0)), "pipebg")
         ELSE ExecutePipe(a, PipeIdx(a), o, forkok, pipeok)
    ELSE LaunchSingle(a, bg, o, forkok)

\* Lines 194-281 with the store of lines 205-206 moved behind the dispatch:
\* the built-ins see history as the iteration found it.
IterationStoreLate(l, env) ==
    IF Len(l) = 0
    THEN [Quiet(args, << >>, "empty") EXCEPT !.pc = "top"] @@
         [history |-> history, avail |-> history_available, input |-> l,
          background |-> background]
    ELSE LET h == HistoryStep(l, history, history_available)
         IN  IF ~h.proceed
             THEN Quiet(args, h.out, "nohistory") @@
                  [history |-> h.history, avail |-> h.avail,
                   input |-> h.input, background |-> background]
             ELSE LET pr == ParseInput(h.input)
                  IN  Dispatch(pr.args, pr.background, h.out, history,
                               history_available, env # "forkfail",
                               env # "pipefail", env # "chdirfail") @@
                      [history |-> h.history, avail |-> h.avail,
                       input |-> h.input, background |-> pr.background]

\* Lines 194-213: the empty-line test, the history step and the parse; then
\* the dispatch.  The result is the shell's state after the iteration.
Iteration(l, env) ==
    IF Len(l) = 0
    THEN [Quiet(args, << >>, "empty") EXCEPT !.pc = "top"] @@
         [history |-> history, avail |-> history_available, input |-> l,
          background |-> background]
    ELSE LET h == HistoryStep(l, history, history_available)
         IN  IF ~h.proceed
             THEN Quiet(args, h.out, "nohistory") @@
                  [history |-> h.history, avail |-> h.avail,
                   input |-> h.input, background |-> background]
             ELSE LET pr == ParseInput(h.input)
                  IN  Dispatch(pr.args, pr.background, h.out, h.history,
                               h.avail, env # "forkfail", env # "pipefail",
                               env # "chdirfail") @@
                      [history |-> h.history, avail |-> h.avail,
                       input |-> h.input, background |-> pr.background]

\* ---------------------------------------------------------------- actions
InitShell ==
    /\ pc = "top"
    /\ should_run = 1
    /\ history = << >>
    /\ history_available = 0
    /\ typed = << >>
    /\ input = << >>
    /\ args = << >>
    /\ background = 0
    /\ out = << >>
    /\ launch = "none"
    /\ procs = [p \in Pids |-> NoProc]
    /\ fds = {}
    /\ pid = 0
    /\ p1 = 0
    /\ p2 = 0
    /\ pipefd = 0
    /\ args2 = << >>
    /\ cwd = RootDir

\* The first call of the sweep starts a new iteration: the record of the
\* iteration before (what it read and printed, and the locals that died
\* with it) is dropped.
DropRecord ==
    /\ typed' = << >>
    /\ out' = << >>
    /\ launch' = "none"
    /\ background' = 0
    /\ pid' = 0
    /\ p1' = 0
    /\ p2' = 0
    /\ pipefd' = 0
    /\ args2' = << >>

\* Line 179, waitpid(-1, NULL, WNOHANG) > 0: some exited child is reclaimed
\* and the sweep calls again.
ReapOne ==
    /\ pc \in {"top", "sweep"}
    /\ \E p \in Zombies : procs' = [procs EXCEPT ![p] = NoProc]
    /\ sweepStart' = IF pc = "top" THEN Zombies ELSE sweepStart
    /\ pc' = "sweep"
    /\ DropRecord
    /\ UNCHANGED <<should_run, history, history_available, input, args, fds,
                   cwd, pvars>>

\* The sweep of line 179 ending after a single call, whatever it returned.
ReapDoneAfterOneCall ==
    /\ pc \in {"top", "sweep"}
    /\ sweepStart' = {}
    /\ pc' = "read"
    /\ DropRecord
    /\ UNCHANGED <<should_run, history, history_available, input, args,
                   procs, fds, cwd, pvars>>

\* Lines 179-182, waitpid(-1, NULL, WNOHANG) <= 0: no exited child is left
\* (0), or no child at all (-1); the sweep ends and the prompt is printed.
ReapDone ==
    /\ pc \in {"top", "sweep"}
    /\ Zombies = {}
    /\ sweepStart' = {}
    /\ pc' = "read"
    /\ DropRecord
    /\ UNCHANGED <<should_run, history, history_available, input, args,
                   procs, fds, cwd, pvars>>

\* Lines 185-188: fgets meets the end of input; main breaks and returns 0.
ReadEOF ==
    /\ pc = "read"
    /\ pc' = "done"
    /\ out' = <<Msg("newline", NULL, 0)>>
    /\ launch' = "eof"
    /\ UNCHANGED <<should_run, history, history_available, typed, input,
                   args, background, procs, fds, pid, p1, p2, pipefd, args2,
                   cwd, sweepStart, pvars>>

\* Lines 185-281: one iteration on the line l, whatever its system calls
\* meet, up to the point where the shell is back at the loop's top, waits
\* for a child or is about to fork the second pipeline child.
RunIteration(l) ==
    \E r \in {Iteration(l, env) : env \in Envs} :
        /\ typed' = l
        /\ pc' = r.pc
        /\ should_run' = r.should_run
        /\ history' = r.history
        /\ history_available' = r.avail
        /\ input' = r.input
        /\ args' = r.args
        /\ background' = r.background
        /\ out' = r.out
        /\ launch' = r.launch
        /\ procs' = r.procs
        /\ fds' = r.fds
        /\ pid' = r.pid
        /\ p1' = r.p1
        /\ p2' = r.p2
        /\ pipefd' = r.pipefd
        /\ args2' = r.args2
        /\ cwd' = r.cwd

\* The reader delivers the line l whole (fgets has read it with its newline
\* and line 191 has removed the newline), and the iteration runs on it.
ReadLine(l) ==
    /\ pc = "read"
    /\ RunIteration(l)
    /\ UNCHANGED <<sweepStart, pvars>>

\* Lines 145-166 of the shell process: fork the right child, then close both
\* descriptors of the channel and go on to the waits.
PipeFork2(forkok) ==
    /\ pc = "pipe_fork2"
    /\ IF ~forkok \/ FreePids = {}
       THEN /\ out' = Append(out, Msg("fork_failed", NULL, 0))
            /\ pc' = "top"
            /\ UNCHANGED <<procs, fds, p2>>
       ELSE LET new == Lowest(FreePids)
            IN  /\ procs' = [procs EXCEPT
                                ![new] = NewChild("right", args2, pipefd, fds)]
                /\ p2' = new
                /\ fds' = fds \ PipeFds(pipefd)
                /\ pc' = "pipe_wait1"
                /\ UNCHANGED out
    /\ UNCHANGED <<should_run, history, history_available, typed, input,
                   args, background, launch, pid, p1, pipefd, args2, cwd,
                   sweepStart, pvars>>

\* Line 167, waitpid(p1, NULL, 0): returns once the left child has ended.
PipeWait1 ==
    /\ pc = "pipe_wait1"
    /\ procs[p1].st = "zombie"
    /\ procs' = [procs EXCEPT ![p1] = NoProc]
    /\ pc' = "pipe_wait2"
    /\ UNCHANGED <<should_run, history, history_available, typed, input,
                   args, background, out, launch, fds, pid, p1, p2, pipefd,
                   args2, cwd, sweepStart, pvars>>

\* Line 168, waitpid(p2, NULL, 0): returns once the right child has ended;
\* execute_pipe returns and main continues.
PipeWait2 ==
    /\ pc = "pipe_wait2"
    /\ procs[p2].st = "zombie"
    /\ procs' = [procs EXCEPT ![p2] = NoProc]
    /\ pc' = "top"
    /\ UNCHANGED <<should_run, history, history_available, typed, input,
                   args, background, out, launch, fds, pid, p1, p2, pipefd,
                   args2, cwd, sweepStart, pvars>>

\* Line 279, waitpid(pid, NULL, 0): returns once the foreground child has
\* ended.
FgWait ==
    /\ pc = "fgwait"
    /\ procs[pid].st = "zombie"
    /\ procs' = [procs EXCEPT ![pid] = NoProc]
    /\ pc' = "top"
    /\ UNCHANGED <<should_run, history, history_available, typed, input,
                   args, background, out, launch, fds, pid, p1, p2, pipefd,
                   args2, cwd, sweepStart, pvars>>

\* ---------------------------------------------------------------- children
\* Lines 135-137 and 154-156 without the close of the unused end (lines 135
\* and 154): each child keeps its copy of the other end.
RedirectKeepsOtherEnd(c) ==
    IF c.role = "left"
    THEN (c.fds \ {Desc(c.ch, "w", "pipefd")}) \cup {Desc(c.ch, "w", "std")}
    ELSE IF c.role = "right"
    THEN (c.fds \ {Desc(c.ch, "r", "pipefd")}) \cup {Desc(c.ch, "r", "std")}
    ELSE c.fds

\* Lines 135-137 and 154-156: a pipeline child closes its copies of the
\* channel's descriptors, keeping one end as its standard output or input.
Redirect(c) ==
    IF c.role = "left"
    THEN (c.fds \ PipeFds(c.ch)) \cup {Desc(c.ch, "w", "std")}
    ELSE IF c.role = "right"
    THEN (c.fds \ PipeFds(c.ch)) \cup {Desc(c.ch, "r", "std")}
    ELSE c.fds

\* The exec-failure branch without its exit(1): the child prints the
\* message and falls out of the if into the code that follows.
ExecFailedNoExit(c) ==
    [c EXCEPT !.st = "inloop", !.ex = "execfail", !.said = c.prog]

\* Lines 139-142, 158-161 and 269-272 when execvp returns: the child prints
\* "Command not found: <name>" and exits with status 1.
ExecFailed(c) ==
    [c EXCEPT !.st = "zombie", !.ex = "execfail", !.said = c.prog,
              !.status = 1, !.ch = 0, !.fds = {}]

\* A child between fork and execvp runs up to execvp(prog, ...) with a
\* program name: the image is replaced (found) or execvp returns.
ChildExec(p, found) ==
    /\ procs[p].st = "forked"
    /\ procs[p].prog # NULL
    /\ LET c == [procs[p] EXCEPT !.fds = Redirect(procs[p])]
       IN  procs' = [procs EXCEPT
                        ![p] = IF found
                               THEN [c EXCEPT !.st = "running", !.ch = 0]
                               ELSE ExecFailed(c)]
    /\ UNCHANGED <<pc, should_run, history, history_available, typed, input,
                   args, background, out, launch, fds, pid, p1, p2, pipefd,
                   args2, cwd, sweepStart, pvars>>

\* What "(null)" stands for: the text printf may give for a NULL %s.
NullText == <<"(", "n", "u", "l", "l", ")">>

\* execvp(NULL, ...) and printf("%s", NULL) are undefined: the child is
\* killed by a signal inside one of them, or execvp returns, the message
\* names "(null)" and the child exits with status 1.
ChildExecNull(p, killed) ==
    /\ procs[p].st = "forked"
    /\ procs[p].prog = NULL
    /\ procs' = [procs EXCEPT
                    ![p] = IF killed
                           THEN [procs[p] EXCEPT !.st = "zombie",
                                    !.ex = "signal", !.status = 11,
                                    !.ch = 0, !.fds = {}]
                           ELSE [procs[p] EXCEPT !.st = "zombie",
                                    !.ex = "execfail", !.said = NullText,
                                    !.status = 1, !.ch = 0, !.fds = {}]]
    /\ UNCHANGED <<pc, should_run, history, history_available, typed, input,
                   args, background, out, launch, fds, pid, p1, p2, pipefd,
                   args2, cwd, sweepStart, pvars>>

\* A running program ends; its descriptors are closed.  The shell passes
\* NULL for the status of every wait, so the program's status is not kept.
ChildExit(p) ==
    /\ procs[p].st = "running"
    /\ procs' = [procs EXCEPT
                    ![p] = [procs[p] EXCEPT !.st = "zombie", !.ex = "exited",
                               !.fds = {}]]
    /\ UNCHANGED <<pc, should_run, history, history_available, typed, input,
                   args, background, out, launch, fds, pid, p1, p2, pipefd,
                   args2, cwd, sweepStart, pvars>>

\* ------------------------------------------------------- specifications
NoResult == [args |-> << >>, background |-> 0, n |-> 0]

\* The reader's stream is not modelled: lines arrive whole.
StreamOff ==
    /\ stdin = << >>
    /\ chunk = [n |-> 0, open |-> FALSE]

\* monte_carlo is not running.
McOff ==
    /\ mc = [pc |-> "off"]
    /\ workers = << >>
    /\ results = << >>

\* The sudoku validator is not running.
SudokuOff ==
    /\ sudoku = << >>
    /\ valid = << >>
    /\ threads = << >>
    /\ sm = [pc |-> "off"]

\* The tokenizer specification is not running.
ParseOff ==
    /\ ppc = "off"
    /\ pinput = << >>
    /\ pres = NoResult

Init ==
    /\ InitShell
    /\ sweepStart = {}
    /\ ppc = "off"
    /\ pinput = << >>
    /\ pres = NoResult
    /\ StreamOff
    /\ McOff
    /\ SudokuOff

Next ==
    \/ ReapOne
    \/ ReapDone
    \/ ReadEOF
    \/ \E l \in InputLines : ReadLine(l)
    \/ \E forkok \in BOOLEAN : PipeFork2(forkok)
    \/ PipeWait1
    \/ PipeWait2
    \/ FgWait
    \/ \E p \in Pids : \E found \in BOOLEAN : ChildExec(p, found)
    \/ \E p \in Pids : \E killed \in BOOLEAN : ChildExecNull(p, killed)
    \/ \E p \in Pids : ChildExit(p)

\* The shell and its children, with the reader delivering any line at any
\* time and no assumption that anything is ever scheduled.
Spec == Init /\ [][Next]_vars

\* The steps the shell process takes by itself (no input, no child needed).
ShellStep == ReapOne \/ ReapDone \/ (\E forkok \in BOOLEAN : PipeFork2(forkok))

\* The shell process is scheduled: a step it can take by itself is taken,
\* and a blocking wait returns once its child has ended.  Nothing is assumed
\* of the reader or of the children.
FairSpec ==
    /\ Spec
    /\ WF_vars(ShellStep)
    /\ WF_vars(PipeWait1 \/ PipeWait2 \/ FgWait)

\* --------------------------------------------- SpecParse: the tokenizer
\* Characters the enumerated lines are made of: the three delimiters, the
\* two marker characters and an ordinary character.
Alphabet == {" ", "\t", "\n", "&", "|", "a"}

\* Every line of at most MaxLen characters.
LinesUpTo(n) == UNION {[1..k -> Alphabet] : k \in 0..n}

InitParse ==
    /\ InitShell
    /\ sweepStart = {}
    /\ ppc = "input"
    /\ pinput \in LinesUpTo(MaxLen)
    /\ pres = NoResult
    /\ StreamOff
    /\ McOff
    /\ SudokuOff

\* One call parse_input(pinput, args).
ParseStep ==
    /\ ppc = "input"
    /\ pres' = ParseInput(pinput)
    /\ ppc' = "parsed"
    /\ UNCHANGED <<pinput, shvars, auxvars>>

NextParse == ParseStep

SpecParse == InitParse /\ [][NextParse]_vars

\* The whitespace-delimited tokens of a line, stated without strtok: a token
\* starts where a non-delimiter follows a delimiter or the line's start, and
\* runs to the last position before the next delimiter.
TokenStarts(line) ==
    {i \in 1..Len(line) :
        /\ line[i] \notin Delims
        /\ (i = 1 \/ line[i - 1] \in Delims)}

TokenAt(line, i) ==
    LET last == CHOOSE j \in i..Len(line) :
                    /\ \A k \in i..j : line[k] \notin Delims
                    /\ (j = Len(line) \/ line[j + 1] \in Delims)
    IN  [k \in 1..(last - i + 1) |-> line[i + k - 1]]

TokenSeq(line) ==
    LET S == TokenStarts(line)
    IN  [k \in 1..Cardinality(S) |->
            TokenAt(line, CHOOSE i \in S : Cardinality({j \in S : j <= i}) = k)]

\* C1: parse_input returns flag 1 and the token sequence without its last
\* token exactly when the last whitespace-delimited token is "&"; for every
\* other line (no tokens, "&" only in a non-final position) it returns flag 0
\* and the full token sequence in order.
C1_ParseBackground ==
    ppc = "parsed" =>
        LET t == TokenSeq(pinput)
        IN  IF Len(t) > 0 /\ t[Len(t)] = Amp
            THEN /\ pres.background = 1
                 /\ pres.args = SubSeq(t, 1, Len(t) - 1)
            ELSE /\ pres.background = 0
                 /\ pres.args = t

\* A parsed line "& &": the final marker is stripped, the earlier "&" stays.
C1_Witness ==
    /\ ppc = "parsed"
    /\ pres.background = 1
    /\ pres.args = <<Amp>>
    /\ pres.n = 2

\* ------------------------------------------------------------- the claims
\* A step of the shell that runs one loop iteration on a delivered line.
IterationStep == pc = "read" /\ pc' # "read" /\ launch' # "eof"

\* C2: an iteration whose line is exactly "!!" leaves the stored history
\* line and the populated flag as they were, and (history being populated)
\* runs the stored line as if it had been typed: same tokens, same
\* background flag, same launch, after echoing it; a later non-empty line
\* other than "!!" becomes the stored line.
C2_RecallKeepsHistory ==
    [][IterationStep =>
        /\ typed' = BangBang =>
              /\ history' = history
              /\ history_available' = history_available
              /\ history_available # 0 =>
                    /\ input' = history
                    /\ \E env \in Envs :
                          LET r == Iteration(history, env)
                          IN  /\ args' = r.args
                              /\ background' = r.background
                              /\ launch' = r.launch
                              /\ pc' = r.pc
                              /\ procs' = r.procs
                              /\ out' = <<Msg("echo", history, 0)>> \o r.out
        /\ (typed' # BangBang /\ typed' # << >>) =>
              /\ history' = typed'
              /\ history_available' = 1
      ]_vars

\* "a &", then "!!": the recall has launched a in the background again.
C2_Witness ==
    /\ typed = BangBang
    /\ history = ProgA \o Sp \o Amp
    /\ args = <<ProgA>>
    /\ background = 1
    /\ launch = "bg"

\* C3: "!!" with history never populated prints the no-history notice and
\* nothing else, leaves history unpopulated, tokenizes nothing (args is
\* untouched), runs no built-in, creates no channel and no child, and the
\* shell is back at the top of its loop.
C3_RecallWithoutHistory ==
    [][(IterationStep /\ typed' = BangBang /\ history_available = 0) =>
        /\ out' = <<Msg("no_history", NULL, 0)>>
        /\ history_available' = 0
        /\ history' = history
        /\ args' = args
        /\ procs' = procs
        /\ fds' = fds
        /\ cwd' = cwd
        /\ should_run' = should_run
        /\ pc' = "top"
      ]_vars

\* The notice has been printed for a "!!" typed before any other line.
C3_Witness ==
    /\ typed = BangBang
    /\ history_available = 0
    /\ pc = "top"
    /\ out = <<Msg("no_history", NULL, 0)>>

\* C4: a line (typed or recalled) whose first token is no built-in, that
\* holds a "|" token and ends with the "&" marker makes the shell print the
\* unsupported-combination message, create no channel and no child, and go
\* back to the top of its loop.
C4_PipeWithBackground ==
    [][(/\ IterationStep
        /\ LET t == TokenSeq(input')
           IN  /\ Len(t) >= 2
               /\ t[Len(t)] = Amp
               /\ t[1] \notin Builtins
               /\ \E i \in 1..(Len(t) - 1) : t[i] = Pipe) =>
        /\ out'[Len(out')] = Msg("pipe_bg_error", NULL, 0)
        /\ procs' = procs
        /\ fds' = fds
        /\ pipefd' = 0
        /\ p1' = 0
        /\ p2' = 0
        /\ pid' = 0
        /\ pc' = "top"
      ]_vars

\* "a | b &" has been rejected.
C4_Witness ==
    /\ typed = ProgA \o Sp \o Pipe \o Sp \o ProgB \o Sp \o Amp
    /\ pc = "top"
    /\ out = <<Msg("pipe_bg_error", NULL, 0)>>

\* C5: no child is ever back in the shell's loop; a child whose execvp of a
\* program name returned has printed the message naming that program and
\* has exited with status 1, in the single-command path and on both sides
\* of a pipeline; and the shell waiting for such a foreground child gets
\* back to the prompt.
C5_ChildNeverInLoop ==
    /\ [](\A p \in Pids :
            /\ procs[p].st # "inloop"
            /\ (procs[p].ex = "execfail" /\ procs[p].prog # NULL) =>
                  /\ procs[p].st = "zombie"
                  /\ procs[p].said = procs[p].prog
                  /\ procs[p].status = 1)
    /\ ((pc = "fgwait" /\ procs[pid].ex = "execfail") ~> (pc = "read"))

\* Both children of one pipeline have failed to start their programs.
C5_Witness ==
    /\ pc = "pipe_wait1"
    /\ procs[p1].ex = "execfail"
    /\ procs[p1].said = ProgA
    /\ procs[p2].ex = "execfail"
    /\ procs[p2].said = ProgB

\* C6: after a successful fork of a single command the shell waits for that
\* child exactly when the background flag is 0, and leaves that wait only by
\* reclaiming the ended child, so it is back at the top of its loop after a
\* foreground launch only without that child; with the flag set it prints
\* the child's identifier and goes to the top of the loop at once, from
\* where it reaches the prompt whether or not the child ever ends.
C6_WaitIffForeground ==
    /\ [][(pc = "read" /\ pid' # 0) =>
            IF background' = 0
            THEN pc' = "fgwait" /\ procs'[pid'].st = "forked"
            ELSE /\ pc' = "top"
                 /\ procs'[pid'].st = "forked"
                 /\ out'[Len(out')] = Msg("bg_pid", NULL, pid')
         ]_vars
    /\ [][(pc = "fgwait" /\ pc' # "fgwait") =>
            /\ procs[pid].st = "zombie"
            /\ procs'[pid].st = "none"
            /\ pid' = pid
         ]_vars
    /\ []((pid # 0 /\ background = 0 /\ pc = "top") =>
            procs[pid].st = "none")
    /\ ((pid # 0 /\ background # 0 /\ pc = "top") ~> (pc = "read"))

\* The prompt is out again while a background child has not ended.
C6_Witness ==
    /\ pc = "read"
    /\ \E p \in Pids : procs[p].role = "single" /\ procs[p].st = "running"
    /\ history = ProgA \o Sp \o Amp

\* C7: the sweep never blocks (one of its two outcomes is always possible),
\* always ends at the prompt, and when it ends every child that was an
\* unwaited zombie at its first call has been reclaimed.
C7_SweepReclaims ==
    /\ [](pc \in {"top", "sweep"} => ENABLED (ReapOne \/ ReapDone))
    /\ [][(pc \in {"top", "sweep"} /\ pc' = "read") =>
            \A p \in (IF pc = "top" THEN Zombies ELSE sweepStart) :
                procs'[p].st = "none"
         ]_vars
    /\ (pc \in {"top", "sweep"} ~> pc = "read")

\* A sweep that began with two zombies has reclaimed both: its next call
\* ends it.
C7_Witness ==
    /\ pc = "sweep"
    /\ Cardinality(sweepStart) = 2
    /\ Zombies = {}

\* C8: when execute_pipe has returned after creating a channel, the shell
\* holds neither descriptor of that channel and has waited for every child
\* the invocation created.
C8_PipeReleasesAll ==
    (pc = "top" /\ pipefd # 0) =>
        /\ fds \cap PipeFds(pipefd) = {}
        /\ p1 # 0 => procs[p1].st = "none"
        /\ p2 # 0 => procs[p2].st = "none"

\* C9: no child is ever made to execute an absent (NULL) program name.
C9_NoNullProgram ==
    \A p \in Pids : procs[p].st # "none" => procs[p].prog # NULL

\* C10: no child is ever made to execute a built-in name.
C10_NoBuiltinProgram ==
    \A p \in Pids : procs[p].st # "none" => procs[p].prog \notin Builtins

\* ------------------------------------- SpecLoop: the loop and the built-ins
\* The lines the reader delivers in the loop specification: the empty and
\* the blank line, the recall, the built-ins, a command, a pipeline, a
\* pipeline with the background marker, and exit.
LoopLines ==
    { << >>,
      Sp,
      BangBang,
      Cd,
      Cd \o Sp \o ProgA,
      Pwd,
      Help,
      History,
      ProgA,
      ProgA \o Sp \o Pipe \o Sp \o ProgB,
      ProgA \o Sp \o Pipe \o Sp \o ProgB \o Sp \o Amp,
      Exit }

\* No line of LoopLines leaves a pipeline side empty, so no child is given
\* a NULL program here.
NextLoop ==
    \/ ReapOne
    \/ ReapDone
    \/ ReadEOF
    \/ \E l \in LoopLines : ReadLine(l)
    \/ \E forkok \in BOOLEAN : PipeFork2(forkok)
    \/ PipeWait1
    \/ PipeWait2
    \/ FgWait
    \/ \E p \in Pids : \E found \in BOOLEAN : ChildExec(p, found)
    \/ \E p \in Pids : ChildExit(p)

SpecLoop == Init /\ [][NextLoop]_vars

\* The shell process is scheduled, as in FairSpec.
FairLoop ==
    /\ SpecLoop
    /\ WF_vars(ShellStep)
    /\ WF_vars(PipeWait1 \/ PipeWait2 \/ FgWait)

\* An iteration has ended in one of the failures the shell recovers from:
\* it is at the loop's top after an empty or blank line, a recall without
\* history, a built-in (a failed cd among them), a rejected or failed
\* pipeline or a failed fork, or it waits for a foreground child whose
\* program was not found.
FailureOutcome ==
    \/ /\ pc = "top"
       /\ launch \in {"empty", "nohistory", "notokens", "builtin", "pipebg",
                      "pipe", "forkfail"}
    \/ /\ pc = "fgwait"
       /\ procs[pid].ex = "execfail"

\* C11: main returns (with status 0, line 284) only from the prompt, on the
\* end of input or on a line, typed or recalled, whose first token is
\* "exit"; that step creates no child and no channel, and once main has
\* returned the shell changes nothing and creates nothing; should_run is
\* set as long as main has not returned, and after each recoverable failure
\* the shell gets back to the prompt with should_run set.
C11_LoopEndsOnExitOrEOF ==
    /\ [][(pc # "done" /\ pc' = "done") =>
            /\ pc = "read"
            /\ procs' = procs
            /\ fds' = fds
            /\ cwd' = cwd
            /\ \/ launch' = "eof" /\ should_run' = 1
               \/ /\ should_run' = 0
                  /\ TokenSeq(input') # << >>
                  /\ TokenSeq(input')[1] = Exit
         ]_vars
    /\ [][pc = "done" =>
            /\ UNCHANGED <<pc, should_run, history, history_available, input,
                           args, out, fds, cwd>>
            /\ \A p \in Pids : procs[p].st = "none" => procs'[p].st = "none"
         ]_vars
    /\ [](pc # "done" => should_run = 1)
    /\ (FailureOutcome ~> (pc = "read" /\ should_run = 1))

\* The shell has left its loop on "exit" typed after a bare cd.
C11_Witness ==
    /\ pc = "done"
    /\ should_run = 0
    /\ typed = Exit
    /\ cwd = HomeDir

\* ------------------------------------ SpecCap: the capacity of the args array
RECURSIVE Repeat(_, _, _)
\* The line of n tokens tok separated by sep.
Repeat(n, tok, sep) ==
    IF n = 0 THEN << >>
    ELSE IF n = 1 THEN tok
    ELSE Repeat(n - 1, tok, sep) \o sep \o tok

\* Lines fgets(input, MAX_LINE, stdin) can deliver, once the newline is
\* removed: at most MAX_LINE - 1 characters.  Enumerated are the lines of up
\* to MAX_ARGS equal tokens with equal separators that fit.
CapLines ==
    {l \in {Repeat(n, tok, sep) :
               n \in 0..MAX_ARGS,
               tok \in {ProgA, Amp, Cd},
               sep \in {Sp, <<"\t">>, <<" ", " ">>}} :
        Len(l) <= MAX_LINE - 1}

InitCap ==
    /\ InitShell
    /\ sweepStart = {}
    /\ ppc = "input"
    /\ pinput \in CapLines
    /\ pres = NoResult
    /\ StreamOff
    /\ McOff
    /\ SudokuOff

SpecCap == InitCap /\ [][NextParse]_vars

\* C12: parse_input writes args[0] .. args[n], the last write being the NULL
\* of line 98; every index written is at most MAX_ARGS - 1.
C12_WritesWithinArgs ==
    ppc = "parsed" => pres.n <= MAX_ARGS - 1

\* ---------------------------------- SpecStream: fgets on the input stream
Newline == <<"\n">>

\* fgets(buf, size, stream) on a stream that is not at its end: it reads
\* up to size - 1 characters and stops after a newline.  buf is what it
\* stored, rest what it left in the stream.
Fgets(s, size) ==
    LET nls == {i \in 1..Len(s) : s[i] = "\n"}
        nl  == IF nls = {} THEN Len(s) ELSE Lowest(nls)
        k   == IF nl <= size - 1 THEN nl ELSE size - 1
    IN  [buf |-> SubSeq(s, 1, k), rest |-> SubSeq(s, k + 1, Len(s))]

\* Line 191, input[strcspn(input, "\n")] = 0: the buffer up to its first
\* newline.
StripNewline(b) ==
    LET nls == {i \in 1..Len(b) : b[i] = "\n"}
    IN  IF nls = {} THEN b ELSE SubSeq(b, 1, Lowest(nls) - 1)

\* The token "a" followed by blanks, k characters in all.
Padded(k) == ProgA \o [i \in 1..(k - 1) |-> " "]

\* Shortest and longest padding of the enumerated physical lines: with the
\* text that follows it, lines on both sides of the MAX_LINE - 1 ceiling.
MinPad == MAX_LINE - 4
MaxPad == MAX_LINE

\* The streams the shell is started on: a physical line made of a padded
\* command and some further text, closed by its newline, then nothing or
\* one more line.
Streams ==
    {Padded(k) \o rem \o Newline \o tail :
        k \in MinPad..MaxPad,
        rem \in {<< >>, ProgB, BangBang, Exit, ProgB \o Sp \o Amp},
        tail \in {<< >>, ProgA \o Newline}}

InitStream ==
    /\ InitShell
    /\ sweepStart = {}
    /\ ParseOff
    /\ stdin \in Streams
    /\ chunk = [n |-> 0, open |-> FALSE]
    /\ McOff
    /\ SudokuOff

\* Lines 185-281 on the stream: fgets stores the next characters, line 191
\* cuts the newline and the iteration runs on what is left.
StreamRead ==
    /\ pc = "read"
    /\ stdin # << >>
    /\ LET f == Fgets(stdin, MAX_LINE)
       IN  /\ RunIteration(StripNewline(f.buf))
           /\ stdin' = f.rest
           /\ chunk' = [n    |-> IF chunk.open THEN chunk.n + 1 ELSE 1,
                        open |-> f.buf[Len(f.buf)] # "\n"]
    /\ UNCHANGED <<sweepStart, ppc, pinput, pres, mc, workers, results,
                   sudoku, valid, threads, sm>>

\* Lines 185-188 on the stream: fgets returns NULL at the end of the stream.
StreamEOF ==
    /\ stdin = << >>
    /\ ReadEOF

NextStream ==
    \/ ReapOne
    \/ ReapDone
    \/ StreamRead
    \/ StreamEOF
    \/ FgWait
    \/ \E p \in Pids : \E found \in BOOLEAN : ChildExec(p, found)
    \/ \E p \in Pids : ChildExit(p)

SpecStream == InitStream /\ [][NextStream]_vars

\* C13: an iteration that ran on a second or later fgets call of one
\* physical line (on characters beyond the ceiling) interpreted no command
\* and no recall: the line it read was empty or blank.
C13_NoSecondCommand ==
    chunk.n > 1 => launch \in {"none", "empty", "notokens", "eof"}

\* C14: after an iteration that ran cd the shell is at the loop's top with
\* should_run set and no child created, and either the working directory is
\* the target (the second token, or HOME for the bare cd) or the iteration
\* printed the cd error.
C14_FailedCdReported ==
    (launch = "builtin" /\ args # << >> /\ args[1] = Cd) =>
        /\ pc = "top"
        /\ should_run = 1
        /\ pid = 0
        /\ \/ cwd = (IF Len(args) >= 2 THEN args[2] ELSE HomeDir)
           \/ \E i \in 1..Len(out) : out[i].m = "cd_failed"

\* C15 as claimed: after an iteration on any line other than "!!", the
\* empty line included, that line is the stored history line and history
\* is populated.
C15_EveryLineRecorded ==
    (launch \notin {"none", "eof"} /\ typed # BangBang) =>
        /\ history = typed
        /\ history_available = 1

\* C15, amended: after an iteration on a line that is neither "!!" nor
\* empty (blank lines, built-ins, failed commands and rejected pipelines
\* included) that line is the stored history line and history is populated;
\* an iteration on "!!" or on the empty line, and every step that is not an
\* iteration, leaves the stored line and the populated flag as they were.
C15_NonEmptyLineRecorded ==
    /\ []((launch \notin {"none", "eof"} /\ typed \notin {BangBang, << >>}) =>
            /\ history = typed
            /\ history_available = 1)
    /\ [][(IterationStep /\ typed' \in {BangBang, << >>}) =>
            UNCHANGED <<history, history_available>>]_vars
    /\ [][~IterationStep => UNCHANGED <<history, history_available>>]_vars

\* A blank line typed after a bare cd has replaced it in history.
C15_Witness ==
    /\ launch = "notokens"
    /\ typed = Sp
    /\ history = Sp
    /\ history_available = 1
    /\ cwd = HomeDir

\* C17: no iteration ever prints the "No commands in history." of
\* builtin_history; after an iteration that ran the history built-in,
\* history is populated, the stored line is the line the iteration
\* interpreted (typed, or recalled by "!!"), its first token is "history",
\* and the entry printed last is that stored line.
C17_HistoryPrintsItself ==
    /\ \A i \in 1..Len(out) : out[i].m # "no_commands"
    /\ (launch = "builtin" /\ args # << >> /\ args[1] = History) =>
          /\ history_available = 1
          /\ history = input
          /\ TokenSeq(history) # << >>
          /\ TokenSeq(history)[1] = History
          /\ out # << >>
          /\ out[Len(out)] = Msg("last_command", input, 0)

\* "history" recalled by "!!": the echo, then the entry, both the stored
\* line.
C17_Witness ==
    /\ launch = "builtin"
    /\ typed = BangBang
    /\ args = <<History>>
    /\ out = <<Msg("echo", History, 0), Msg("last_command", History, 0)>>

\* Who holds the end e of channel c, and where: the shell or a child, under
\* the number pipe() gave or as a standard stream.
Holders(c, e) ==
    {<<0, d.at>> : d \in {x \in fds : x.ch = c /\ x.end = e}}
    \cup UNION {{<<p, d.at>> : d \in {x \in procs[p].fds :
                                          x.ch = c /\ x.end = e}} : p \in Pids}

\* The shell is in the waits of execute_pipe (lines 167-168).
InPipeWaits == pc \in {"pipe_wait1", "pipe_wait2"}

\* C16: while the shell is in the waits of execute_pipe it holds no
\* descriptor of the channel; once neither child is still between fork and
\* execvp, the write-end is held by nobody but the left child as its
\* standard output and the read-end by nobody but the right child as its
\* standard input, each running program holding exactly its end; so when the
\* left child has ended while the right program runs no write-end is open
\* anywhere (the reader meets the end of the stream), and when both children
\* have ended the scheduled shell returns from execute_pipe.
C16_PipeDescriptors ==
    /\ [](InPipeWaits => \A d \in fds : d.ch # pipefd)
    /\ []((/\ InPipeWaits
           /\ procs[p1].st # "forked"
           /\ procs[p2].st # "forked") =>
            /\ Holders(pipefd, "w") \subseteq {<<p1, "std">>}
            /\ Holders(pipefd, "r") \subseteq {<<p2, "std">>}
            /\ procs[p1].st = "running" =>
                  /\ Holders(pipefd, "w") = {<<p1, "std">>}
                  /\ procs[p1].fds = {Desc(pipefd, "w", "std")}
            /\ procs[p2].st = "running" =>
                  /\ Holders(pipefd, "r") = {<<p2, "std">>}
                  /\ procs[p2].fds = {Desc(pipefd, "r", "std")})
    /\ []((/\ InPipeWaits
           /\ procs[p1].st \in {"zombie", "none"}
           /\ procs[p2].st = "running") =>
            Holders(pipefd, "w") = {})
    /\ ((\/ /\ pc = "pipe_wait1"
            /\ procs[p1].st = "zombie"
            /\ procs[p2].st = "zombie"
         \/ /\ pc = "pipe_wait2"
            /\ procs[p2].st = "zombie") ~> (pc = "top"))

\* The left program has run and exited; the right program still runs, the
\* read-end its standard input and no write-end left.
C16_Witness ==
    /\ pc = "pipe_wait1"
    /\ procs[p1].st = "zombie"
    /\ procs[p1].ex = "exited"
    /\ procs[p2].st = "running"
    /\ procs[p2].fds = {Desc(pipefd, "r", "std")}
    /\ Holders(pipefd, "w") = {}

\* ------------------------------------------- SpecMC: src/monte_carlo.c
\* Largest num_processes and total_points the command line gives.
MaxProcs == 3
MaxPoints == 4

\* Everything monte_carlo leaves alone.
notmc == <<shvars, ppc, pinput, pres, stdin, chunk, sudoku, valid, threads, sm>>

\* A line monte_carlo prints: its kind and, for the estimate, the numerator
\* and the denominator of the quotient printed.
McMsg(m, num, den) == [m |-> m, num |-> num, den |-> den]

\* C's integer division, which truncates toward zero (b # 0).
CDiv(a, b) ==
    LET abs(x) == IF x < 0 THEN -x ELSE x
        q      == abs(a) \div abs(b)
    IN  IF (a < 0) = (b < 0) THEN q ELSE -q

\* main's locals before line 15: argc, and for argc = 3 what atoi and atol
\* make of the two arguments.  ended is how the process has ended ("no"
\* while it runs), ub whether it has evaluated an undefined expression.
McLocals(argc, np, tp) ==
    [pc |-> "start", argc |-> argc, num_processes |-> np,
     total_points |-> tp, points_per_process |-> 0, i |-> 0,
     total_in_circle |-> 0, out |-> << >>, ended |-> "no", status |-> 0,
     ub |-> FALSE]

InitMC ==
    /\ InitShell
    /\ sweepStart = {}
    /\ ParseOff
    /\ StreamOff
    /\ SudokuOff
    /\ \/ mc = McLocals(2, 0, 0)
       \/ \E np \in -1..MaxProcs : \E tp \in -1..MaxPoints :
              mc = McLocals(3, np, tp)
    /\ workers = << >>
    /\ results = << >>

\* Lines 15-27.  The division of line 22 comes before the test of line 24:
\* with num_processes = 0 it is undefined, and the process is killed by the
\* arithmetic trap (trapped) or goes on with the quotient unused.
McStart(trapped) ==
    /\ mc.pc = "start"
    /\ IF mc.argc # 3
       THEN mc' = [mc EXCEPT !.pc = "done", !.out = <<McMsg("usage", 0, 0)>>,
                             !.ended = "returned", !.status = 1]
       ELSE IF mc.num_processes = 0
       THEN IF trapped
            THEN mc' = [mc EXCEPT !.pc = "done", !.ub = TRUE,
                                  !.ended = "signal", !.status = 8]
            ELSE mc' = [mc EXCEPT !.pc = "done", !.ub = TRUE,
                                  !.out = <<McMsg("must_be_positive", 0, 0)>>,
                                  !.ended = "returned", !.status = 1]
       ELSE LET ppp == CDiv(mc.total_points, mc.num_processes)
            IN  IF mc.num_processes <= 0 \/ mc.total_points <= 0
                THEN mc' = [mc EXCEPT !.pc = "done",
                                      !.points_per_process = ppp,
                                      !.out = <<McMsg("must_be_positive", 0, 0)>>,
                                      !.ended = "returned", !.status = 1]
                ELSE mc' = [mc EXCEPT !.pc = "mmap",
                                      !.points_per_process = ppp]
    /\ UNCHANGED <<workers, results, notmc>>

\* Lines 30-40: the shared slots, zero-filled by the anonymous mapping, or
\* the failure of mmap.
McMmap(ok) ==
    /\ mc.pc = "mmap"
    /\ IF ok
       THEN /\ results' = [k \in 0..(mc.num_processes - 1) |-> 0]
            /\ mc' = [mc EXCEPT !.pc = "fork",
                                !.out = Append(@, McMsg("estimating", 0, 0))]
       ELSE /\ results' = results
            /\ mc' = [mc EXCEPT !.pc = "done",
                                !.out = Append(@, McMsg("mmap_failed", 0, 0)),
                                !.ended = "exited", !.status = 1]
    /\ UNCHANGED <<workers, notmc>>

\* Lines 43-49 and 72 in the parent: one fork of the loop.  The child starts
\* at line 53 with its copy of i; wrote lists the slots it has written.
McFork(ok) ==
    /\ mc.pc = "fork"
    /\ IF ok
       THEN /\ workers' = Append(workers,
                             [st |-> "sampling", i |-> mc.i, j |-> 0,
                              points_in_circle |-> 0, wrote |-> << >>])
            /\ mc' = IF mc.i + 1 < mc.num_processes
                     THEN [mc EXCEPT !.i = @ + 1]
                     ELSE [mc EXCEPT !.pc = "wait", !.i = 0]
       ELSE /\ workers' = workers
            /\ mc' = [mc EXCEPT !.pc = "done",
                                !.out = Append(@, McMsg("fork_failed", 0, 0)),
                                !.ended = "exited", !.status = 1]
    /\ UNCHANGED <<results, notmc>>

\* Lines 57-66 in child w: one point is drawn; hit says whether it falls
\* inside the circle.
McSample(w, hit) ==
    /\ workers[w].st = "sampling"
    /\ workers[w].j < mc.points_per_process
    /\ workers' = [workers EXCEPT
                      ![w].j = @ + 1,
                      ![w].points_in_circle = IF hit THEN @ + 1 ELSE @]
    /\ UNCHANGED <<mc, results, notmc>>

\* Lines 69-70 in child w: the loop is over, the child stores its count in
\* results[i] and exits.
McWrite(w) ==
    /\ workers[w].st = "sampling"
    /\ workers[w].j >= mc.points_per_process
    /\ results' = [results EXCEPT ![workers[w].i] = workers[w].points_in_circle]
    /\ workers' = [workers EXCEPT ![w].st = "exited",
                                  ![w].wrote = Append(@, workers[w].i)]
    /\ UNCHANGED <<mc, notmc>>

\* Lines 75-77: one wait(NULL) returns with an exited child.
McWait(w) ==
    /\ mc.pc = "wait"
    /\ workers[w].st = "exited"
    /\ workers' = [workers EXCEPT ![w].st = "reaped"]
    /\ mc' = IF mc.i + 1 < mc.num_processes
             THEN [mc EXCEPT !.i = @ + 1]
             ELSE [mc EXCEPT !.pc = "sum", !.i = 0]
    /\ UNCHANGED <<results, notmc>>

RECURSIVE SumSlots(_, _)
\* Lines 80-83: results[0] + ... + results[n-1].
SumSlots(r, n) == IF n = 0 THEN 0 ELSE SumSlots(r, n - 1) + r[n - 1]

\* Lines 80-92: the slots are added up and the estimate
\* 4.0 * total_in_circle / total_points is printed, kept here as the pair of
\* its numerator and denominator.
McSum ==
    /\ mc.pc = "sum"
    /\ LET t == SumSlots(results, mc.num_processes)
       IN  mc' = [mc EXCEPT !.pc = "done", !.total_in_circle = t,
                            !.out = Append(@, McMsg("pi_estimate", 4 * t,
                                                mc.total_points)),
                            !.ended = "returned", !.status = 0]
    /\ UNCHANGED <<workers, results, notmc>>

NextMC ==
    \/ \E trapped \in BOOLEAN : McStart(trapped)
    \/ \E ok \in BOOLEAN : McMmap(ok)
    \/ \E ok \in BOOLEAN : McFork(ok)
    \/ \E w \in DOMAIN workers : \E hit \in BOOLEAN : McSample(w, hit)
    \/ \E w \in DOMAIN workers : McWrite(w)
    \/ \E w \in DOMAIN workers : McWait(w)
    \/ McSum

SpecMC == InitMC /\ [][NextMC]_vars

\* C18: a run on two integer arguments of which one is not positive ends
\* with the message "Arguments must be positive integers." and status 1,
\* having mapped nothing, forked nobody and evaluated nothing undefined.
C18_RejectsNonPositive ==
    (/\ mc.pc = "done"
     /\ mc.argc = 3
     /\ (mc.num_processes <= 0 \/ mc.total_points <= 0)) =>
        /\ mc.out = <<McMsg("must_be_positive", 0, 0)>>
        /\ mc.ended = "returned"
        /\ mc.status = 1
        /\ workers = << >>
        /\ results = << >>
        /\ ~mc.ub

RECURSIVE Sampled(_, _)
\* The points drawn by the first n children together.
Sampled(ws, n) == IF n = 0 THEN 0 ELSE Sampled(ws, n - 1) + ws[n].j

\* C19: the parent reads the slots only with every child reclaimed; and a
\* run that prints its estimate has created exactly num_processes children,
\* child i has written slot i and nothing else, once, the slot holds its
\* count, and the children together have drawn total_points points, the
\* estimate's denominator.
C19_FanOut ==
    /\ mc.pc = "sum" =>
          /\ Len(workers) = mc.num_processes
          /\ \A w \in DOMAIN workers : workers[w].st = "reaped"
    /\ (mc.pc = "done" /\ mc.ended = "returned" /\ mc.status = 0) =>
          /\ Len(workers) = mc.num_processes
          /\ \A w \in DOMAIN workers :
                /\ workers[w].i = w - 1
                /\ workers[w].wrote = <<w - 1>>
                /\ results[w - 1] = workers[w].points_in_circle
          /\ mc.out[Len(mc.out)].den = mc.total_points
          /\ Sampled(workers, Len(workers)) = mc.total_points

\* ------------------------------------------------ SpecSudoku: src/sudoku.c
SIZE == 9
\* The number of threads and of slots of valid[] (lines 28, 108, 137, 144).
NumThreads == 11

\* Everything the validator leaves alone.
notsd == <<shvars, ppc, pinput, pres, stdin, chunk, mc, workers, results>>

\* A grid from its rows: indices run from 0 as in the source.
Grid(rows) ==
    [i \in 0..(SIZE - 1) |-> [j \in 0..(SIZE - 1) |-> rows[i + 1][j + 1]]]

\* The grid of lines 14-24.
Puzzle ==
    Grid(<< <<6, 2, 4, 5, 3, 9, 1, 8, 7>>,
            <<5, 1, 9, 7, 2, 8, 6, 3, 4>>,
            <<8, 3, 7, 6, 1, 4, 2, 9, 5>>,
            <<1, 4, 3, 8, 6, 5, 7, 2, 9>>,
            <<9, 5, 8, 2, 4, 7, 3, 6, 1>>,
            <<7, 6, 2, 3, 9, 1, 4, 5, 8>>,
            <<3, 7, 1, 9, 5, 6, 8, 4, 2>>,
            <<4, 9, 6, 1, 8, 2, 5, 7, 3>>,
            <<2, 8, 5, 4, 7, 3, 9, 1, 6>> >>)

\* The grid g with the cell (r, c) set to v.
SetCell(g, r, c, v) == [g EXCEPT ![r][c] = v]

\* The grid g with the cells (r1, c1) and (r2, c2) exchanged.
SwapCells(g, r1, c1, r2, c2) ==
    [g EXCEPT ![r1][c1] = g[r2][c2], ![r2][c2] = g[r1][c1]]

\* The grid g with the rows r1 and r2 exchanged.
SwapRows(g, r1, r2) == [g EXCEPT ![r1] = g[r2], ![r2] = g[r1]]

\* The grids the array of lines 14-24 is initialised with: the source's, and
\* edits of it that leave it valid (two rows of one band exchanged) or break
\* rows, columns or subgrids, alone or together, by a duplicate or by a
\* number outside 1..9.
Grids ==
    { Puzzle,
      SwapRows(Puzzle, 0, 1),
      SwapRows(Puzzle, 0, 3),
      SwapCells(Puzzle, 0, 0, 0, 1),
      SwapCells(Puzzle, 0, 0, 1, 0),
      SetCell(Puzzle, 0, 0, 2),
      SetCell(Puzzle, 4, 4, 0),
      SetCell(Puzzle, 8, 8, 10),
      [i \in 0..(SIZE - 1) |-> [j \in 0..(SIZE - 1) |-> ((i + j) % SIZE) + 1]] }

RECURSIVE CheckLoopNoDup(_, _)
\* The loop of check_validity without the check[num] == 1 test.
CheckLoopNoDup(arr, i) ==
    IF i = 9 THEN 1
    ELSE IF arr[i] < 1 \/ arr[i] > 9 THEN 0
    ELSE CheckLoopNoDup(arr, i + 1)

\* check_validity with the duplicate test left out.
CheckValidityNoDup(arr) == CheckLoopNoDup(arr, 0)

RECURSIVE CheckLoop(_, _, _)
\* The loop of lines 41-45 from index i on, check[] holding 1 exactly at
\* the numbers of the set seen.
CheckLoop(arr, i, seen) ==
    IF i = 9 THEN 1
    ELSE IF arr[i] < 1 \/ arr[i] > 9 \/ arr[i] \in seen THEN 0
    ELSE CheckLoop(arr, i + 1, seen \cup {arr[i]})

\* check_validity: 1 when the nine numbers arr[0..8] are 1..9, each once.
CheckValidity(arr) == CheckLoop(arr, 0, {})

\* validate_rows, lines 54-64: what it stores in its slot.
ValidateRows(g) ==
    IF \E i \in 0..(SIZE - 1) :
           CheckValidity([j \in 0..(SIZE - 1) |-> g[i][j]]) = 0
    THEN 0 ELSE 1

\* validate_cols, lines 73-83: what it stores in its slot.
ValidateCols(g) ==
    IF \E j \in 0..(SIZE - 1) :
           CheckValidity([i \in 0..(SIZE - 1) |-> g[i][j]]) = 0
    THEN 0 ELSE 1

\* validate_subgrid, lines 92-103: subgrid_data is filled row by row from
\* (row_start, col_start), count running from 0 to 8.
ValidateSubgrid(g, row_start, col_start) ==
    CheckValidity([count \in 0..8 |->
                      g[row_start + (count \div 3)][col_start + (count % 3)]])

\* A thread not yet created.  A created thread has: fn, its start routine;
\* param, the parameters block main filled for it; st, "running" until it
\* has stored its result and called pthread_exit, then "exited", and
\* "joined" once main has joined it; wrote, the slots of valid[] it has
\* written.
NoThread == [st |-> "none", fn |-> "none",
             param |-> [row |-> 0, col |-> 0, thread_idx |-> 0],
             wrote |-> << >>]

\* pthread_create with the routine fn and a parameters block.  The rows and
\* columns threads never read row and col, which main leaves unset (kept
\* as 0 here).
Created(fn, row, col, idx) ==
    [st |-> "running", fn |-> fn,
     param |-> [row |-> row, col |-> col, thread_idx |-> idx],
     wrote |-> << >>]

InitSudoku ==
    /\ InitShell
    /\ sweepStart = {}
    /\ ParseOff
    /\ StreamOff
    /\ McOff
    /\ sudoku \in Grids
    /\ valid = [k \in 0..(NumThreads - 1) |-> 0]
    /\ threads = [t \in 0..(NumThreads - 1) |-> NoThread]
    /\ sm = [pc |-> "rows", i |-> 0, j |-> 0, thread_count |-> 0,
             is_valid |-> 1, out |-> << >>]

\* Lines 111-116: the banner, and the thread for the rows.
SmCreateRows ==
    /\ sm.pc = "rows"
    /\ threads' = [threads EXCEPT ![0] = Created("rows", 0, 0, 0)]
    /\ sm' = [sm EXCEPT !.pc = "cols", !.out = <<"checking">>]
    /\ UNCHANGED <<sudoku, valid, notsd>>

\* Lines 119-124: the thread for the columns; thread_count = 2.
SmCreateCols ==
    /\ sm.pc = "cols"
    /\ threads' = [threads EXCEPT ![1] = Created("cols", 0, 0, 1)]
    /\ sm' = [sm EXCEPT !.pc = "subgrids", !.thread_count = 2,
                        !.i = 0, !.j = 0]
    /\ UNCHANGED <<sudoku, valid, notsd>>

\* Lines 125-134: one pass of the inner loop creates the thread for the
\* subgrid at (i, j); j and then i advance by 3.
SmCreateSubgrid ==
    /\ sm.pc = "subgrids"
    /\ threads' = [threads EXCEPT
                      ![sm.thread_count] =
                          Created("subgrid", sm.i, sm.j, sm.thread_count)]
    /\ sm' = IF sm.j + 3 < SIZE
             THEN [sm EXCEPT !.j = @ + 3, !.thread_count = @ + 1]
             ELSE IF sm.i + 3 < SIZE
             THEN [sm EXCEPT !.i = @ + 3, !.j = 0, !.thread_count = @ + 1]
             ELSE [sm EXCEPT !.pc = "join", !.i = 0, !.j = 0,
                             !.thread_count = @ + 1]
    /\ UNCHANGED <<sudoku, valid, notsd>>

\* A thread runs its routine to the end: it reads the grid, stores its
\* result in valid[p->thread_idx] and calls pthread_exit.
ThreadRun(t) ==
    /\ threads[t].st = "running"
    /\ LET p == threads[t].param
           v == IF threads[t].fn = "rows" THEN ValidateRows(sudoku)
                ELSE IF threads[t].fn = "cols" THEN ValidateCols(sudoku)
                ELSE ValidateSubgrid(sudoku, p.row, p.col)
       IN  /\ valid' = [valid EXCEPT ![p.thread_idx] = v]
           /\ threads' = [threads EXCEPT
                             ![t].st = "exited",
                             ![t].wrote = Append(@, p.thread_idx)]
    /\ UNCHANGED <<sudoku, sm, notsd>>

\* Lines 137-140: pthread_join(threads[i]) returns once thread i has
\* exited; its parameters block is freed.
SmJoin ==
    /\ sm.pc = "join"
    /\ threads[sm.i].st = "exited"
    /\ threads' = [threads EXCEPT ![sm.i].st = "joined"]
    /\ sm' = IF sm.i + 1 < NumThreads
             THEN [sm EXCEPT !.i = @ + 1]
             ELSE [sm EXCEPT !.pc = "check", !.i = 0]
    /\ UNCHANGED <<sudoku, valid, notsd>>

\* Lines 143-149: one pass of the loop reads valid[i].
SmCheck ==
    /\ sm.pc = "check"
    /\ sm' = [sm EXCEPT
                 !.is_valid = IF valid[sm.i] = 0 THEN 0 ELSE @,
                 !.out = IF valid[sm.i] = 0
                         THEN Append(@, "failed_at") ELSE @,
                 !.i = @ + 1,
                 !.pc = IF sm.i + 1 < NumThreads THEN "check" ELSE "report"]
    /\ UNCHANGED <<sudoku, valid, threads, notsd>>

\* Lines 151-157: the verdict.
SmReport ==
    /\ sm.pc = "report"
    /\ sm' = [sm EXCEPT
                 !.pc = "done",
                 !.out = Append(@, IF sm.is_valid # 0 THEN "VALID"
                                   ELSE "INVALID")]
    /\ UNCHANGED <<sudoku, valid, threads, notsd>>

NextSudoku ==
    \/ SmCreateRows
    \/ SmCreateCols
    \/ SmCreateSubgrid
    \/ \E t \in 0..(NumThreads - 1) : ThreadRun(t)
    \/ SmJoin
    \/ SmCheck
    \/ SmReport

SpecSudoku == InitSudoku /\ [][NextSudoku]_vars

\* The grid g holds each of 1..9 exactly once in every row, every column
\* and every 3x3 subgrid (nine cells whose numbers are the set 1..9).
GridValid(g) ==
    /\ \A i \in 0..8 : {g[i][j] : j \in 0..8} = 1..9
    /\ \A j \in 0..8 : {g[i][j] : i \in 0..8} = 1..9
    /\ \A a \in 0..2 : \A b \in 0..2 :
          {g[3 * a + x][3 * b + y] : x \in 0..2, y \in 0..2} = 1..9

\* The threads that have written slot k of valid[].
Writers(k) ==
    {t \in 0..(NumThreads - 1) :
        \E n \in 1..Len(threads[t].wrote) : threads[t].wrote[n] = k}

\* C20: under every interleaving, slot k of valid[] is written by thread k
\* alone and at most once (once it has exited, exactly once); thread 0
\* checks the rows, thread 1 the columns and, once all are created, threads
\* 2..10 the nine distinct subgrids; main reads valid[] only with all eleven
\* threads joined; and the verdict printed is VALID exactly when every row,
\* column and subgrid of the grid holds each of 1..9 once.
C20_SudokuValidator ==
    /\ \A k \in 0..(NumThreads - 1) :
          /\ Writers(k) \subseteq {k}
          /\ Len(threads[k].wrote) <= 1
          /\ threads[k].st \in {"exited", "joined"} => threads[k].wrote = <<k>>
          /\ threads[k].st # "none" =>
                threads[k].fn = (IF k = 0 THEN "rows"
                                 ELSE IF k = 1 THEN "cols" ELSE "subgrid")
    /\ sm.pc \in {"join", "check", "report", "done"} =>
          {<<threads[k].param.row, threads[k].param.col>> : k \in 2..10}
              = {0, 3, 6} \X {0, 3, 6}
    /\ sm.pc \in {"check", "report", "done"} =>
          \A t \in 0..(NumThreads - 1) : threads[t].st = "joined"
    /\ sm.pc = "done" =>
          /\ sm.out[Len(sm.out)] \in {"VALID", "INVALID"}
          /\ (sm.out[Len(sm.out)] = "VALID") <=> GridValid(sudoku)

\* The verdict INVALID on a grid whose rows and columns are all right (two
\* rows of different bands exchanged): only subgrid threads stored 0.
C20_Witness ==
    /\ sm.pc = "done"
    /\ sm.out[Len(sm.out)] = "INVALID"
    /\ valid[0] = 1
    /\ valid[1] = 1
    /\ \E k \in 2..10 : valid[k] = 0

====
